---- MODULE Spec2Model ----
(***************************************************************************)
(* Model of the workflow-input validators of the repository:               *)
(*   src/.github/scripts/validate_workflow_inputs.py  (current validator)  *)
(*   src/.github/validate_workflow_inputs.py          (legacy validator)   *)
(*                                                                         *)
(* Python strings whose characters matter (input values, the environment,  *)
(* workflow names) are sequences of one-character strings, so that         *)
(* str.lower(), str.startswith() and the substring test `a in b` are       *)
(* computed as Python computes them.  Python dicts are functions: a key is *)
(* present iff it is in the DOMAIN.  A dict whose iteration order matters  *)
(* (the input definitions) is a sequence of entries with distinct names.   *)
(***************************************************************************)
EXTENDS Integers, Sequences, FiniteSets, TLC

VARIABLES
    pc,                  \* position of the script / of the function under check
    workflow_path,       \* os.environ['GITHUB_WORKFLOW_PATH'] (option)
    fs,                  \* the file system: path -> what loading that file gives
    github_context,      \* os.environ['GITHUB_CONTEXT'], as json.loads sees it
    os_environ,          \* the INPUT_* variables of os.environ: key suffix -> value
    workflow_file,       \* main's local: the path handed to load_workflow_file
    workflow_data,       \* result of load_workflow_file
    defined_inputs,      \* result of get_workflow_inputs
    provided_inputs,     \* result of get_provided_inputs
    environment,         \* argument of validate_environment_consistency
    missing_inputs,      \* result of validate_required_inputs
    inconsistent_inputs, \* result of validate_environment_consistency
    exit_code            \* sys.exit status: -1 while running

vars == <<pc, workflow_path, fs, github_context, os_environ, workflow_file,
          workflow_data, defined_inputs, provided_inputs, environment,
          missing_inputs, inconsistent_inputs, exit_code>>

(***************************************************************************)
(* Strings                                                                 *)
(***************************************************************************)
UpperAlpha == <<"A","B","C","D","E","F","G","H","I","J","K","L","M",
                "N","O","P","Q","R","S","T","U","V","W","X","Y","Z">>
LowerAlpha == <<"a","b","c","d","e","f","g","h","i","j","k","l","m",
                "n","o","p","q","r","s","t","u","v","w","x","y","z">>

\* the lowercase letter of each uppercase letter
LowerOf ==
    [c \in {UpperAlpha[i] : i \in 1..Len(UpperAlpha)} |->
        LowerAlpha[CHOOSE i \in 1..Len(UpperAlpha) : UpperAlpha[i] = c]]

\* str.lower() on one character
LowerChar(c) == IF c \in DOMAIN LowerOf THEN LowerOf[c] ELSE c

\* str.lower()
StrLower(s) == [i \in 1..Len(s) |-> LowerChar(s[i])]

\* s.startswith(prefix)
StartsWith(s, prefix) ==
    /\ Len(prefix) <= Len(s)
    /\ SubSeq(s, 1, Len(prefix)) = prefix

\* sub in s   (substring test on str)
Contains(sub, s) ==
    \E i \in 0..(Len(s) - Len(sub)) : SubSeq(s, i + 1, i + Len(sub)) = sub

Empty == << >>
prod == <<"p","r","o","d">>
production == <<"p","r","o","d","u","c","t","i","o","n">>
staging == <<"s","t","a","g","i","n","g">>
stage == <<"s","t","a","g","e">>
dev == <<"d","e","v">>
development == <<"d","e","v","e","l","o","p","m","e","n","t">>
Dash == <<"-">>
Underscore == <<"_">>

(***************************************************************************)
(* validate_environment_consistency                                       *)
(***************************************************************************)
all_environments == <<prod, production, staging, stage, dev, development>>

fields_to_check == <<"monitor_name", "app_url", "k8_ingress_url">>

\* [env for env in all_environments if not env.startswith(environment_lowercase)]
forbidden_environments(environment_lowercase) ==
    LET keep(env) == ~StartsWith(env, environment_lowercase)
    IN  SelectSeq(all_environments, keep)

\* A (field, detail) tuple.  The detail text is kept as the data it is built
\* from: which rule wrote it, and for the forbidden-name rule the token, the
\* lowercased environment and the forbidden list that the f-string interpolates.
ForbiddenViolation(field, forbidden_env, environment_lowercase) ==
    [field |-> field, rule |-> "forbidden", token |-> forbidden_env,
     env |-> environment_lowercase,
     others |-> forbidden_environments(environment_lowercase)]

PunctuationViolation(field) ==
    [field |-> field, rule |-> "punctuation", token |-> Empty,
     env |-> Empty, others |-> << >>]

\* the inner loop without its break: one entry per forbidden name contained
ForbiddenScanNoBreak(field, field_value, environment_lowercase) ==
    LET hit(env) == Contains(env, field_value)
        hits == SelectSeq(forbidden_environments(environment_lowercase), hit)
    IN  [i \in 1..Len(hits) |->
            ForbiddenViolation(field, hits[i], environment_lowercase)]

\* the inner `for forbidden_env in forbidden_environments: ... break`:
\* the first forbidden name, in list order, that the value contains
ForbiddenScan(field, field_value, environment_lowercase) ==
    LET hit(env) == Contains(env, field_value)
        hits == SelectSeq(forbidden_environments(environment_lowercase), hit)
    IN  IF hits = << >> THEN << >>
        ELSE <<ForbiddenViolation(field, Head(hits), environment_lowercase)>>

\* `if field == 'monitor_name' and ('-' in field_value or '_' in field_value)`
PunctuationCheck(field, field_value) ==
    IF field = "monitor_name"
       /\ (Contains(Dash, field_value) \/ Contains(Underscore, field_value))
    THEN <<PunctuationViolation(field)>>
    ELSE << >>

\* CheckField with the punctuation check made only when the forbidden-name
\* scan of the field found nothing
CheckFieldPunctuationElse(field, environment_lowercase, provided) ==
    IF field \in DOMAIN provided /\ provided[field] # Empty
    THEN LET field_value == StrLower(provided[field])
             scanned == ForbiddenScan(field, field_value, environment_lowercase)
         IN  IF scanned # << >> THEN scanned
             ELSE PunctuationCheck(field, field_value)
    ELSE << >>

\* one iteration of `for field in fields_to_check`
CheckField(field, environment_lowercase, provided) ==
    IF field \in DOMAIN provided /\ provided[field] # Empty
    THEN LET field_value == StrLower(provided[field])
         IN  ForbiddenScan(field, field_value, environment_lowercase)
             \o PunctuationCheck(field, field_value)
    ELSE << >>

validate_environment_consistency(env, provided) ==
    LET environment_lowercase == StrLower(env)
    IN  CheckField(fields_to_check[1], environment_lowercase, provided)
        \o CheckField(fields_to_check[2], environment_lowercase, provided)
        \o CheckField(fields_to_check[3], environment_lowercase, provided)

(***************************************************************************)
(* validate_required_inputs                                                *)
(***************************************************************************)
\* One entry of the definitions dict: the input's name and which of the keys
\* 'required' and 'default' its definition carries.
InputDef(name, has_required, required, has_default) ==
    [name |-> name, has_required |-> has_required, required |-> required,
     has_default |-> has_default]

\* input_def.get('required', False)
is_required(input_def) == input_def.has_required /\ input_def.required

\* the presence test without `or not provided_inputs[input_name]`
IsMissingKeyOnly(input_def, provided) ==
    /\ is_required(input_def)
    /\ ~input_def.has_default
    /\ input_def.name \notin DOMAIN provided

\* is_required and not has_default and
\*   (input_name not in provided_inputs or not provided_inputs[input_name])
IsMissing(input_def, provided) ==
    /\ is_required(input_def)
    /\ ~input_def.has_default
    /\ (input_def.name \notin DOMAIN provided
        \/ provided[input_def.name] = Empty)

validate_required_inputs(defined, provided) ==
    LET missing(input_def) == IsMissing(input_def, provided)
        sel == SelectSeq(defined, missing)
    IN  [i \in 1..Len(sel) |-> sel[i].name]

(***************************************************************************)
(* Workflow files and the run context                                      *)
(***************************************************************************)
\* A path is the sequence of its '/'-separated parts.
Canon(path) ==
    LET named(part) == part # "." /\ part # ""
    IN  SelectSeq(path, named)

Path(name) == <<".github", "workflows", name>>

\* what yaml.safe_load returns: None/empty (null), or a dict of which the
\* validators read on -> workflow_call -> inputs and name
WorkflowData(null, on, workflow_call, inputs_key, inputs, has_name, name) ==
    [null |-> null, on |-> on, workflow_call |-> workflow_call,
     inputs_key |-> inputs_key, inputs |-> inputs,
     has_name |-> has_name, name |-> name]

NullData == WorkflowData(TRUE, FALSE, FALSE, FALSE, << >>, FALSE, Empty)
Reusable(inputs) == WorkflowData(FALSE, TRUE, TRUE, TRUE, inputs, FALSE, Empty)

\* open(path) followed by yaml.safe_load(file): << >> when either raises,
\* <<data>> otherwise
TryLoad(files, path) ==
    IF Canon(path) \in DOMAIN files /\ files[Canon(path)].parses
    THEN <<files[Canon(path)].data>>
    ELSE << >>

default_paths == <<Path("actions.yml"), Path("validator.yml"), Path("reusable.yml")>>

\* load_workflow_file with the except branch returning None instead of trying
\* the default paths and exiting
load_workflow_file_degrading(files, path) ==
    IF TryLoad(files, path) # << >>
    THEN [exited |-> FALSE, data |-> TryLoad(files, path)[1]]
    ELSE [exited |-> FALSE, data |-> NullData]

\* load_workflow_file: the given path, then the default paths in order, then
\* sys.exit(1)
load_workflow_file(files, path) ==
    LET loads(i) == TryLoad(files, default_paths[i]) # << >>
    IN  IF TryLoad(files, path) # << >>
        THEN [exited |-> FALSE, data |-> TryLoad(files, path)[1]]
        ELSE IF \E i \in 1..Len(default_paths) : loads(i)
        THEN LET first == CHOOSE i \in 1..Len(default_paths) :
                              loads(i) /\ \A j \in 1..(i - 1) : ~loads(j)
             IN  [exited |-> FALSE, data |-> TryLoad(files, default_paths[first])[1]]
        ELSE [exited |-> TRUE, data |-> NullData]

get_workflow_inputs(data) ==
    IF data.null THEN << >>
    ELSE IF data.on /\ data.workflow_call /\ data.inputs_key THEN data.inputs
    ELSE << >>

\* key[6:].lower() for the INPUT_ variables of the model
InputNameOf(key) ==
    CASE key = "ENVIRONMENT" -> "environment"
      [] key = "MONITOR_NAME" -> "monitor_name"
      [] key = "APP_URL" -> "app_url"
      [] key = "K8_INGRESS_URL" -> "k8_ingress_url"
      [] key = "VERSION" -> "version"
      [] OTHER -> key

EmptyMap == << >>

\* json.loads(GITHUB_CONTEXT): whether it parses, context['event_name'],
\* context['event'] and context['event']['inputs']
Context(parsable, has_event_name, event_name, event, inputs_key, inputs) ==
    [parsable |-> parsable, has_event_name |-> has_event_name,
     event_name |-> event_name, event |-> event, inputs_key |-> inputs_key,
     inputs |-> inputs]

\* context.get('event_name', '')
EventType(context) == IF context.has_event_name THEN context.event_name ELSE ""

\* the dict built from the INPUT_ variables
EnvInputs(environ) ==
    LET names == {InputNameOf(key) : key \in DOMAIN environ}
    IN  [n \in names |-> environ[CHOOSE key \in DOMAIN environ : InputNameOf(key) = n]]

\* get_provided_inputs returning {} unless the event is workflow_call
get_provided_inputs_call_only(context, environ) ==
    IF ~context.parsable THEN EmptyMap
    ELSE IF EventType(context) # "workflow_call" THEN EmptyMap
    ELSE IF EnvInputs(environ) # EmptyMap THEN EnvInputs(environ)
    ELSE IF context.event /\ context.inputs_key /\ context.inputs # EmptyMap
    THEN context.inputs
    ELSE EmptyMap

get_provided_inputs(context, environ) ==
    IF ~context.parsable THEN EmptyMap
    ELSE IF EnvInputs(environ) # EmptyMap THEN EnvInputs(environ)
    ELSE IF context.event /\ context.inputs_key /\ context.inputs # EmptyMap
    THEN context.inputs
    ELSE EmptyMap

\* main's rewriting of GITHUB_WORKFLOW_PATH.  The variable is << >> when unset,
\* else <<[parts, at_refs]>>: the '/'-separated parts of the text before
\* '@refs/', and whether '@refs/' occurs.
ResolveWorkflowFile(path_var) ==
    IF path_var = << >> THEN Path("current.yml")
    ELSE IF path_var[1].at_refs /\ Len(path_var[1].parts) > 1
    THEN <<".">> \o SubSeq(path_var[1].parts, 3, Len(path_var[1].parts))
    ELSE path_var[1].parts

(***************************************************************************)
(* Inputs of the model                                                     *)
(***************************************************************************)
MaxDefs == 2        \* definitions per workflow in SpecRequired and SpecLegacy
MaxMainDefs == 1    \* definitions per workflow file in Spec
MaxNameParts == 2   \* pieces a monitor_name is concatenated from in SpecEnv

\* an optional value: << >> when absent, <<v>> when present
Opt(S) == {<< >>} \cup {<<v>> : v \in S}

\* the dict holding the keys of `opts` that are present
MapOf(opts) ==
    [k \in {key \in DOMAIN opts : opts[key] # << >>} |-> opts[k][1]]

\* the (required, default) shapes of one input definition
DefsOver(names) ==
    {InputDef(n, hr, r, hd) :
        n \in names, hr \in BOOLEAN, r \in BOOLEAN, hd \in BOOLEAN}
    \ {InputDef(n, FALSE, TRUE, hd) : n \in names, hd \in BOOLEAN}

\* the definition dicts with at most max entries: keys are unique
DefSeqs(names, max) ==
    {defs \in UNION {[1..k -> DefsOver(names)] : k \in 0..max} :
        \A i, j \in 1..Len(defs) : defs[i].name = defs[j].name => i = j}

One == <<"1">>
X == <<"x">>
UpperProd == <<"P","R","O","D">>
StageDashX == stage \o Dash \o X
DevUnderscoreMon == dev \o Underscore \o <<"m","o","n">>

\* all concatenations of at most max pieces
RECURSIVE Concats(_, _)
Concats(pieces, max) ==
    IF max = 0 THEN {Empty}
    ELSE Concats(pieces, max - 1)
         \cup {a \o b : a \in Concats(pieces, max - 1), b \in pieces}

(***************************************************************************)
(* main                                                                    *)
(***************************************************************************)
ResolvePath ==
    /\ pc = "start"
    /\ workflow_file' = ResolveWorkflowFile(workflow_path)
    /\ pc' = "load"
    /\ UNCHANGED <<workflow_path, fs, github_context, os_environ, workflow_data,
                   defined_inputs, provided_inputs, environment, missing_inputs,
                   inconsistent_inputs, exit_code>>

LoadWorkflow ==
    /\ pc = "load"
    /\ LET loaded == load_workflow_file(fs, workflow_file)
       IN  IF loaded.exited
           THEN /\ pc' = "exit_load"
                /\ exit_code' = 1
                /\ UNCHANGED workflow_data
           ELSE /\ pc' = "inputs"
                /\ workflow_data' = loaded.data
                /\ UNCHANGED exit_code
    /\ UNCHANGED <<workflow_path, fs, github_context, os_environ, workflow_file,
                   defined_inputs, provided_inputs, environment, missing_inputs,
                   inconsistent_inputs>>

GetWorkflowInputs ==
    /\ pc = "inputs"
    /\ defined_inputs' = get_workflow_inputs(workflow_data)
    /\ pc' = "provided"
    /\ UNCHANGED <<workflow_path, fs, github_context, os_environ, workflow_file,
                   workflow_data, provided_inputs, environment, missing_inputs,
                   inconsistent_inputs, exit_code>>

GetProvidedInputs ==
    /\ pc = "provided"
    /\ provided_inputs' = get_provided_inputs(github_context, os_environ)
    /\ pc' = "early"
    /\ UNCHANGED <<workflow_path, fs, github_context, os_environ, workflow_file,
                   workflow_data, defined_inputs, environment, missing_inputs,
                   inconsistent_inputs, exit_code>>

\* main without lines 196-208: validation always follows
EarlyExitCheckNever ==
    /\ pc = "early"
    /\ pc' = "required"
    /\ UNCHANGED <<workflow_path, fs, github_context, os_environ, workflow_file,
                   workflow_data, defined_inputs, provided_inputs, environment,
                   missing_inputs, inconsistent_inputs, exit_code>>

\* `if event_type != 'workflow_call' and not provided_inputs: sys.exit(0)`,
\* inside a try whose bare except passes when GITHUB_CONTEXT does not parse
EarlyExitCheck ==
    /\ pc = "early"
    /\ IF /\ github_context.parsable
          /\ EventType(github_context) # "workflow_call"
          /\ provided_inputs = EmptyMap
       THEN /\ pc' = "exit_early"
            /\ exit_code' = 0
       ELSE /\ pc' = "required"
            /\ UNCHANGED exit_code
    /\ UNCHANGED <<workflow_path, fs, github_context, os_environ, workflow_file,
                   workflow_data, defined_inputs, provided_inputs, environment,
                   missing_inputs, inconsistent_inputs>>

ValidateRequired ==
    /\ pc = "required"
    /\ missing_inputs' = validate_required_inputs(defined_inputs, provided_inputs)
    /\ pc' = "consistency"
    /\ UNCHANGED <<workflow_path, fs, github_context, os_environ, workflow_file,
                   workflow_data, defined_inputs, provided_inputs, environment,
                   inconsistent_inputs, exit_code>>

\* main calling validate_environment_consistency whenever the key is there,
\* without testing the value
ValidateConsistencyUnguarded ==
    /\ pc = "consistency"
    /\ IF "environment" \in DOMAIN provided_inputs
       THEN /\ environment' = provided_inputs["environment"]
            /\ inconsistent_inputs' =
                 validate_environment_consistency(provided_inputs["environment"],
                                                  provided_inputs)
       ELSE /\ environment' = Empty
            /\ inconsistent_inputs' =
                 validate_environment_consistency(Empty, provided_inputs)
    /\ pc' = "report"
    /\ UNCHANGED <<workflow_path, fs, github_context, os_environ, workflow_file,
                   workflow_data, defined_inputs, provided_inputs, missing_inputs,
                   exit_code>>

\* `if 'environment' in provided_inputs and provided_inputs['environment']`
ValidateConsistency ==
    /\ pc = "consistency"
    /\ IF /\ "environment" \in DOMAIN provided_inputs
          /\ provided_inputs["environment"] # Empty
       THEN /\ environment' = provided_inputs["environment"]
            /\ inconsistent_inputs' =
                 validate_environment_consistency(provided_inputs["environment"],
                                                  provided_inputs)
       ELSE /\ inconsistent_inputs' = << >>
            /\ UNCHANGED environment
    /\ pc' = "report"
    /\ UNCHANGED <<workflow_path, fs, github_context, os_environ, workflow_file,
                   workflow_data, defined_inputs, provided_inputs, missing_inputs,
                   exit_code>>

\* the verdict taken from the missing list alone
ReportMissingOnly ==
    /\ pc = "report"
    /\ exit_code' = IF missing_inputs # << >> THEN 1 ELSE 0
    /\ pc' = "exit_report"
    /\ UNCHANGED <<workflow_path, fs, github_context, os_environ, workflow_file,
                   workflow_data, defined_inputs, provided_inputs, environment,
                   missing_inputs, inconsistent_inputs>>

\* `if missing_inputs or inconsistent_inputs: ... sys.exit(1) else: sys.exit(0)`
Report ==
    /\ pc = "report"
    /\ exit_code' = IF missing_inputs # << >> \/ inconsistent_inputs # << >>
                    THEN 1 ELSE 0
    /\ pc' = "exit_report"
    /\ UNCHANGED <<workflow_path, fs, github_context, os_environ, workflow_file,
                   workflow_data, defined_inputs, provided_inputs, environment,
                   missing_inputs, inconsistent_inputs>>

\* GITHUB_WORKFLOW_PATH: unset, a reusable-workflow reference, a bare
\* owner/repo reference
WorkflowPaths ==
    { << >>,
      <<[parts |-> <<"owner", "repo", ".github", "workflows", "ci.yml">>,
         at_refs |-> TRUE]>>,
      <<[parts |-> <<"owner", "repo">>, at_refs |-> TRUE]>> }

MainNames == {"version", "environment"}

VersionRequired == <<InputDef("version", TRUE, TRUE, FALSE)>>

\* the file main is pointed at: absent, unparsable, empty, a workflow that is
\* not reusable, a reusable workflow
PrimaryFiles ==
    {<< >>, <<[parses |-> FALSE, data |-> NullData]>>,
     <<[parses |-> TRUE, data |-> NullData]>>,
     <<[parses |-> TRUE,
        data |-> WorkflowData(FALSE, TRUE, FALSE, FALSE, << >>, FALSE, Empty)]>>}
    \cup {<<[parses |-> TRUE, data |-> Reusable(defs)]>> :
             defs \in DefSeqs(MainNames, MaxMainDefs)}

\* the files at the three default paths
DefaultFiles ==
    { [p \in {} |-> 0],
      [p \in {Path("validator.yml")} |->
          [parses |-> TRUE, data |-> Reusable(VersionRequired)]],
      [p \in {Path("actions.yml"), Path("reusable.yml")} |->
          IF p = Path("actions.yml")
          THEN [parses |-> TRUE, data |-> NullData]
          ELSE [parses |-> TRUE, data |-> Reusable(VersionRequired)]] }

FileSystems ==
    {[p \in DOMAIN d \cup (IF f = << >> THEN {}
                           ELSE {Path("current.yml"), Path("ci.yml")}) |->
         IF p \in DOMAIN d THEN d[p] ELSE f[1]] :
       d \in DefaultFiles, f \in PrimaryFiles}

EnvironVars ==
    {MapOf([ENVIRONMENT |-> e, MONITOR_NAME |-> m, VERSION |-> v]) :
        e \in Opt({Empty, prod}), m \in Opt({prod, StageDashX}), v \in Opt({One})}

PayloadInputs ==
    { [environment |-> prod, monitor_name |-> StageDashX, version |-> Empty],
      [monitor_name |-> DevUnderscoreMon, version |-> One] }

Contexts ==
    {Context(FALSE, FALSE, "", FALSE, FALSE, EmptyMap)}
    \cup {Context(TRUE, FALSE, "", FALSE, FALSE, EmptyMap)}
    \cup {Context(TRUE, TRUE, n, FALSE, FALSE, EmptyMap) :
             n \in {"workflow_call", "push"}}
    \cup {Context(TRUE, TRUE, n, TRUE, TRUE, i) :
             n \in {"workflow_call", "push"}, i \in {EmptyMap} \cup PayloadInputs}

Init ==
    /\ pc = "start"
    /\ workflow_path \in WorkflowPaths
    /\ fs \in FileSystems
    /\ github_context \in Contexts
    /\ os_environ \in EnvironVars
    /\ workflow_file = << >>
    /\ workflow_data = NullData
    /\ defined_inputs = << >>
    /\ provided_inputs = EmptyMap
    /\ environment = Empty
    /\ missing_inputs = << >>
    /\ inconsistent_inputs = << >>
    /\ exit_code = -1

Next ==
    \/ ResolvePath
    \/ LoadWorkflow
    \/ GetWorkflowInputs
    \/ GetProvidedInputs
    \/ EarlyExitCheck
    \/ ValidateRequired
    \/ ValidateConsistency
    \/ Report

Spec == Init /\ [][Next]_vars

(***************************************************************************)
(* validate_required_inputs on its own                                     *)
(***************************************************************************)
CallValidateRequired ==
    /\ pc = "call_required"
    /\ missing_inputs' = validate_required_inputs(defined_inputs, provided_inputs)
    /\ pc' = "return_required"
    /\ UNCHANGED <<workflow_path, fs, github_context, os_environ, workflow_file,
                   workflow_data, defined_inputs, provided_inputs, environment,
                   inconsistent_inputs, exit_code>>

RequiredNames == {"environment", "version", "monitor_name"}

InitRequired ==
    /\ pc = "call_required"
    /\ defined_inputs \in DefSeqs(RequiredNames, MaxDefs)
    /\ provided_inputs \in
         {MapOf([environment |-> e, version |-> v, monitor_name |-> m]) :
             e \in Opt({Empty, prod}), v \in Opt({Empty, One}),
             m \in Opt({Empty, StageDashX})}
    /\ workflow_path = << >>
    /\ fs = << >>
    /\ github_context = Context(FALSE, FALSE, "", FALSE, FALSE, EmptyMap)
    /\ os_environ = EmptyMap
    /\ workflow_file = << >>
    /\ workflow_data = NullData
    /\ environment = Empty
    /\ missing_inputs = << >>
    /\ inconsistent_inputs = << >>
    /\ exit_code = -1

SpecRequired == InitRequired /\ [][CallValidateRequired]_vars

(***************************************************************************)
(* validate_environment_consistency on its own                             *)
(***************************************************************************)
CallValidateConsistency ==
    /\ pc = "call_consistency"
    /\ inconsistent_inputs' =
         validate_environment_consistency(environment, provided_inputs)
    /\ pc' = "return_consistency"
    /\ UNCHANGED <<workflow_path, fs, github_context, os_environ, workflow_file,
                   workflow_data, defined_inputs, provided_inputs, environment,
                   missing_inputs, exit_code>>

Qa == <<"q","a">>

\* main passes a non-empty provided_inputs['environment']
Environments ==
    {prod, production, staging, stage, dev, development, UpperProd, Qa}

NamePieces ==
    {prod, production, stage, dev, UpperProd, Dash, Underscore}

MonitorNames == Concats(NamePieces, MaxNameParts)

UpperStaging == <<"S","T","A","G","I","N","G">>

Urls ==
    {Empty, production, UpperStaging, development \o Dash \o stage,
     dev \o Dash \o X \o Underscore \o X}

InitConsistency ==
    /\ pc = "call_consistency"
    /\ environment \in Environments
    /\ provided_inputs \in
         {MapOf([environment |-> <<environment>>, monitor_name |-> m,
                 app_url |-> a, k8_ingress_url |-> k]) :
             m \in Opt(MonitorNames), a \in Opt(Urls), k \in Opt(Urls)}
    /\ workflow_path = << >>
    /\ fs = << >>
    /\ github_context = Context(FALSE, FALSE, "", FALSE, FALSE, EmptyMap)
    /\ os_environ = EmptyMap
    /\ workflow_file = << >>
    /\ workflow_data = NullData
    /\ defined_inputs = << >>
    /\ missing_inputs = << >>
    /\ inconsistent_inputs = << >>
    /\ exit_code = -1

SpecEnv == InitConsistency /\ [][CallValidateConsistency]_vars

(***************************************************************************)
(* The legacy validator, src/.github/validate_workflow_inputs.py           *)
(***************************************************************************)
deploy == <<"d","e","p","l","o","y">>
build == <<"b","u","i","l","d">>
test == <<"t","e","s","t">>
database == <<"d","a","t","a","b","a","s","e">>
api == <<"a","p","i">>
docker == <<"d","o","c","k","e","r">>
npm == <<"n","p","m">>
integration == <<"i","n","t","e","g","r","a","t","i","o","n">>
performance == <<"p","e","r","f","o","r","m","a","n","c","e">>

NoType == "None"

\* open and yaml.safe_load, sys.exit(1) when either raises
legacy_load_workflow_file(files, path) ==
    IF TryLoad(files, path) # << >>
    THEN [exited |-> FALSE, data |-> TryLoad(files, path)[1]]
    ELSE [exited |-> TRUE, data |-> NullData]

\* defined for a dict; on None the `in` test raises TypeError
legacy_get_workflow_inputs(data) ==
    IF data.on /\ data.workflow_call /\ data.inputs_key THEN data.inputs
    ELSE << >>

legacy_get_provided_inputs(context) ==
    IF ~context.parsable THEN EmptyMap
    ELSE IF context.event /\ context.inputs_key THEN context.inputs
    ELSE EmptyMap

get_workflow_type(data) ==
    IF data.has_name
    THEN LET workflow_name == StrLower(data.name)
         IN  IF Contains(deploy, workflow_name) THEN "deployment"
             ELSE IF Contains(build, workflow_name) THEN "build"
             ELSE IF Contains(test, workflow_name) THEN "test"
             ELSE NoType
    ELSE NoType

\* selected_options.get(key) == value
OptionIs(selected_options, key, value) ==
    key \in DOMAIN selected_options /\ selected_options[key] = value

get_required_inputs_for_type(workflow_type, selected_options) ==
    IF workflow_type = "deployment"
    THEN {"environment", "version", "approval_required"}
         \cup (IF OptionIs(selected_options, "environment", production)
               THEN {"approval_ticket", "rollback_plan"} ELSE {})
         \cup (IF OptionIs(selected_options, "service_type", database)
               THEN {"backup_strategy", "downtime_window"}
               ELSE IF OptionIs(selected_options, "service_type", api)
               THEN {"api_version", "documentation_url"} ELSE {})
    ELSE IF workflow_type = "build"
    THEN {"repository", "branch", "build_type"}
         \cup (IF OptionIs(selected_options, "build_type", docker)
               THEN {"docker_registry", "docker_tag"}
               ELSE IF OptionIs(selected_options, "build_type", npm)
               THEN {"npm_token"} ELSE {})
    ELSE IF workflow_type = "test"
    THEN {"test_suite", "environment"}
         \cup (IF OptionIs(selected_options, "test_suite", integration)
               THEN {"api_key", "test_data_path"}
               ELSE IF OptionIs(selected_options, "test_suite", performance)
               THEN {"load_level", "duration"} ELSE {})
    ELSE {}

\* the fallback of validate_workflow_inputs: required and not a key of provided
BasicMissing(defined, provided) ==
    LET missing(input_def) ==
            is_required(input_def) /\ input_def.name \notin DOMAIN provided
        sel == SelectSeq(defined, missing)
    IN  [i \in 1..Len(sel) |-> sel[i].name]

\* the names of the type's required set that are absent or falsy in provided
TypedMissing(workflow_type, provided) ==
    {n \in get_required_inputs_for_type(workflow_type, provided) :
        n \notin DOMAIN provided \/ provided[n] = Empty}

\* the lists a `for` over a Python set can build: every order of its elements
Orders(S) ==
    {seq \in [1..Cardinality(S) -> S] :
        \A i, j \in 1..Cardinality(S) : seq[i] = seq[j] => i = j}

\* the legacy main reads GITHUB_WORKFLOW_PATH as it is
LegacyWorkflowFile(path_var) ==
    IF path_var = << >> THEN Path("current.yml") ELSE path_var[1].parts

LegacyLoad ==
    /\ pc = "legacy_start"
    /\ workflow_file' = LegacyWorkflowFile(workflow_path)
    /\ LET loaded == legacy_load_workflow_file(fs, LegacyWorkflowFile(workflow_path))
       IN  IF loaded.exited
           THEN /\ pc' = "legacy_exit_load"
                /\ exit_code' = 1
                /\ UNCHANGED workflow_data
           ELSE /\ pc' = "legacy_validate"
                /\ workflow_data' = loaded.data
                /\ UNCHANGED exit_code
    /\ UNCHANGED <<workflow_path, fs, github_context, os_environ, defined_inputs,
                   provided_inputs, environment, missing_inputs,
                   inconsistent_inputs>>

\* validate_workflow_inputs after the load; an empty file (None) makes
\* get_workflow_inputs raise, which ends the process with status 1
LegacyValidate ==
    /\ pc = "legacy_validate"
    /\ IF workflow_data.null
       THEN /\ pc' = "legacy_crash"
            /\ exit_code' = 1
            /\ UNCHANGED <<defined_inputs, provided_inputs, missing_inputs>>
       ELSE /\ defined_inputs' = legacy_get_workflow_inputs(workflow_data)
            /\ provided_inputs' = legacy_get_provided_inputs(github_context)
            /\ IF get_workflow_type(workflow_data) = NoType
               THEN missing_inputs' =
                        BasicMissing(legacy_get_workflow_inputs(workflow_data),
                                     legacy_get_provided_inputs(github_context))
               ELSE missing_inputs' \in
                        Orders(TypedMissing(get_workflow_type(workflow_data),
                                            legacy_get_provided_inputs(github_context)))
            /\ pc' = "legacy_report"
            /\ UNCHANGED exit_code
    /\ UNCHANGED <<workflow_path, fs, github_context, os_environ, workflow_file,
                   workflow_data, environment, inconsistent_inputs>>

LegacyReport ==
    /\ pc = "legacy_report"
    /\ exit_code' = IF missing_inputs # << >> THEN 1 ELSE 0
    /\ pc' = "legacy_exit"
    /\ UNCHANGED <<workflow_path, fs, github_context, os_environ, workflow_file,
                   workflow_data, defined_inputs, provided_inputs, environment,
                   missing_inputs, inconsistent_inputs>>

LegacyNames == {"version", "release_notes"}

CapDeploy == <<"D","e","p","l","o","y">>
Ci == <<"c","i">>
Yes == <<"y","e","s">>

WorkflowNames == {<< >>, <<CapDeploy>>, <<build>>, <<test \o Dash \o deploy>>, <<Ci>>}

LegacyWorkflows ==
    {NullData, WorkflowData(FALSE, FALSE, FALSE, FALSE, << >>, TRUE, CapDeploy)}
    \cup {WorkflowData(FALSE, TRUE, TRUE, TRUE, defs, n # << >>,
                       IF n = << >> THEN Empty ELSE n[1]) :
             defs \in DefSeqs(LegacyNames, MaxDefs), n \in WorkflowNames}

LegacyFileSystems ==
    {[p \in {} |-> 0],
     [p \in {Path("current.yml"), Path("ci.yml")} |->
         [parses |-> FALSE, data |-> NullData]]}
    \cup {[p \in {Path("current.yml"), Path("ci.yml")} |->
              [parses |-> TRUE, data |-> w]] : w \in LegacyWorkflows}

LegacyPayloads ==
    { EmptyMap,
      [release_notes |-> One],
      [environment |-> dev, version |-> One, approval_required |-> Yes],
      [environment |-> production, version |-> Empty, approval_required |-> Yes,
       approval_ticket |-> One],
      [environment |-> dev, version |-> One, approval_required |-> Yes,
       service_type |-> api, api_version |-> One, release_notes |-> One],
      [repository |-> X, branch |-> X, build_type |-> docker],
      [test_suite |-> performance, environment |-> dev, load_level |-> One] }

LegacyContexts ==
    {Context(FALSE, FALSE, "", FALSE, FALSE, EmptyMap),
     Context(TRUE, TRUE, "push", FALSE, FALSE, EmptyMap)}
    \cup {Context(TRUE, TRUE, "workflow_call", TRUE, TRUE, i) : i \in LegacyPayloads}

InitLegacy ==
    /\ pc = "legacy_start"
    /\ workflow_path \in
         {<< >>, <<[parts |-> Path("ci.yml"), at_refs |-> FALSE]>>}
    /\ fs \in LegacyFileSystems
    /\ github_context \in LegacyContexts
    /\ os_environ = EmptyMap
    /\ workflow_file = << >>
    /\ workflow_data = NullData
    /\ defined_inputs = << >>
    /\ provided_inputs = EmptyMap
    /\ environment = Empty
    /\ missing_inputs = << >>
    /\ inconsistent_inputs = << >>
    /\ exit_code = -1

NextLegacy == LegacyLoad \/ LegacyValidate \/ LegacyReport

SpecLegacy == InitLegacy /\ [][NextLegacy]_vars

(***************************************************************************)
(* Properties of validate_required_inputs (SpecRequired)                   *)
(***************************************************************************)
InSeq(x, seq) == \E i \in 1..Len(seq) : seq[i] = x

\* the position of the definition named n in the definitions
DefIndex(n, defs) == CHOOSE i \in 1..Len(defs) : defs[i].name = n

\* C1: validate_required_inputs returns a list in which a name appears iff its
\* definition has required true, has no default, and the name is absent from
\* provided or mapped to the empty string; names appear in the iteration order
\* of the definitions, each at most once.
C1_MissingExactlyRequiredUnprovided ==
    pc = "return_required" =>
        /\ \A n \in RequiredNames :
              InSeq(n, missing_inputs) <=>
                  \E j \in 1..Len(defined_inputs) :
                      /\ defined_inputs[j].name = n
                      /\ defined_inputs[j].has_required
                      /\ defined_inputs[j].required
                      /\ ~defined_inputs[j].has_default
                      /\ (n \notin DOMAIN provided_inputs
                          \/ provided_inputs[n] = Empty)
        /\ \A i \in 1..Len(missing_inputs) : missing_inputs[i] \in RequiredNames
        /\ \A i, j \in 1..Len(missing_inputs) :
              i < j => DefIndex(missing_inputs[i], defined_inputs)
                         < DefIndex(missing_inputs[j], defined_inputs)

\* two names reported, one absent from provided and one mapped to ""
C1_Witness ==
    /\ pc = "return_required"
    /\ Len(missing_inputs) = 2
    /\ \E i, j \in 1..2 :
          /\ missing_inputs[i] \notin DOMAIN provided_inputs
          /\ missing_inputs[j] \in DOMAIN provided_inputs
          /\ provided_inputs[missing_inputs[j]] = Empty

(***************************************************************************)
(* Properties of validate_environment_consistency (SpecEnv)                *)
(***************************************************************************)
WatchedFields == {"monitor_name", "app_url", "k8_ingress_url"}

FieldIndex(field) == CHOOSE i \in 1..Len(fields_to_check) : fields_to_check[i] = field

\* the field is present in provided and not ""
Supplied(field) ==
    field \in DOMAIN provided_inputs /\ provided_inputs[field] # Empty

\* the lowercased value of a supplied field mentions the token
Mentions(field, token) == Contains(token, StrLower(provided_inputs[field]))

\* prod/production = 1, staging/stage = 2, dev/development = 3
Family(k) == (k + 1) \div 2

KnownEnvironment ==
    \E k \in 1..Len(all_environments) : all_environments[k] = StrLower(environment)

EnvironmentFamily ==
    Family(CHOOSE k \in 1..Len(all_environments) :
               all_environments[k] = StrLower(environment))

\* the token at position k is one the code treats as forbidden
IsForbidden(k) == ~StartsWith(all_environments[k], StrLower(environment))

ForbiddenEntries(field) ==
    {i \in 1..Len(inconsistent_inputs) :
        inconsistent_inputs[i].field = field
        /\ inconsistent_inputs[i].rule = "forbidden"}

PunctuationEntries(field) ==
    {i \in 1..Len(inconsistent_inputs) :
        inconsistent_inputs[i].field = field
        /\ inconsistent_inputs[i].rule = "punctuation"}

\* C3: when the environment is one of the six known tokens (any letter
\* case), a watched field that mentions only tokens of the environment's own
\* family and no token of another family yields no forbidden-token violation.
C3_OwnFamilyNeverForbidden ==
    (pc = "return_consistency" /\ KnownEnvironment) =>
        \A field \in WatchedFields :
            ( /\ Supplied(field)
              /\ \E k \in 1..Len(all_environments) :
                    Mentions(field, all_environments[k])
              /\ \A k \in 1..Len(all_environments) :
                    Mentions(field, all_environments[k])
                        => Family(k) = EnvironmentFamily )
            => ForbiddenEntries(field) = {}

\* C4: whenever monitor_name is present, non-empty and contains '-' or '_', a
\* punctuation violation is recorded for monitor_name, whether or not a
\* forbidden-token violation was recorded for it; app_url and k8_ingress_url
\* never produce a punctuation violation.
C4_PunctuationIndependent ==
    pc = "return_consistency" =>
        /\ ( /\ Supplied("monitor_name")
             /\ \/ Contains(Dash, provided_inputs["monitor_name"])
                \/ Contains(Underscore, provided_inputs["monitor_name"]) )
           => PunctuationEntries("monitor_name") # {}
        /\ PunctuationEntries("app_url") = {}
        /\ PunctuationEntries("k8_ingress_url") = {}

\* monitor_name has both kinds of violation while app_url holds a hyphen
C4_Witness ==
    /\ pc = "return_consistency"
    /\ ForbiddenEntries("monitor_name") # {}
    /\ PunctuationEntries("monitor_name") # {}
    /\ Supplied("app_url")
    /\ Contains(Dash, provided_inputs["app_url"])

\* C5: each watched field contributes at most one forbidden-token violation,
\* naming the first forbidden token in universe order that the lowercased value
\* contains; an absent or empty field contributes none; the violations come in
\* the order monitor_name, app_url, k8_ingress_url, and for monitor_name the
\* forbidden-token violation precedes the punctuation violation; the sequence
\* never has more than four entries.
C5_ViolationShape ==
    pc = "return_consistency" =>
        /\ \A i \in 1..Len(inconsistent_inputs) :
              inconsistent_inputs[i].field \in WatchedFields
        /\ \A field \in WatchedFields :
              /\ Cardinality(ForbiddenEntries(field)) <= 1
              /\ ~Supplied(field) =>
                    ForbiddenEntries(field) \cup PunctuationEntries(field) = {}
              /\ Supplied(field) =>
                    /\ ForbiddenEntries(field) # {} <=>
                          \E k \in 1..Len(all_environments) :
                              IsForbidden(k) /\ Mentions(field, all_environments[k])
                    /\ \A i \in ForbiddenEntries(field) :
                          \E k \in 1..Len(all_environments) :
                              /\ inconsistent_inputs[i].token = all_environments[k]
                              /\ IsForbidden(k)
                              /\ Mentions(field, all_environments[k])
                              /\ \A j \in 1..(k - 1) :
                                    ~(IsForbidden(j)
                                      /\ Mentions(field, all_environments[j]))
        /\ \A i, j \in 1..Len(inconsistent_inputs) :
              i < j =>
                  /\ FieldIndex(inconsistent_inputs[i].field)
                        <= FieldIndex(inconsistent_inputs[j].field)
                  /\ inconsistent_inputs[i].field = inconsistent_inputs[j].field
                        => /\ inconsistent_inputs[i].rule = "forbidden"
                           /\ inconsistent_inputs[j].rule = "punctuation"
        /\ Len(inconsistent_inputs) <= 4

\* four entries, and an app_url that holds three forbidden tokens of which the
\* one reported comes first in the universe but last in the value
C5_Witness ==
    /\ pc = "return_consistency"
    /\ Len(inconsistent_inputs) = 4
    /\ "app_url" \in DOMAIN provided_inputs
    /\ provided_inputs["app_url"] = development \o Dash \o stage
    /\ inconsistent_inputs[3].field = "app_url"
    /\ inconsistent_inputs[3].token = stage

(***************************************************************************)
(* Properties of main (Spec)                                               *)
(***************************************************************************)
\* main has left load_workflow_file with a workflow definition
Loaded ==
    pc \in {"inputs", "provided", "early", "required", "consistency", "report",
            "exit_early", "exit_report"}

Exited == pc \in {"exit_load", "exit_early", "exit_report"}

\* get_provided_inputs has returned
ProvidedKnown ==
    pc \in {"early", "required", "consistency", "report", "exit_early",
            "exit_report"}

\* the environment key is absent from provided or mapped to ""
NoEnvironment ==
    \/ "environment" \notin DOMAIN provided_inputs
    \/ provided_inputs["environment"] = Empty

\* the two lists as the validators compute them from the run's mappings
MissingOfRun == validate_required_inputs(defined_inputs, provided_inputs)

InconsistentOfRun ==
    IF NoEnvironment THEN << >>
    ELSE validate_environment_consistency(provided_inputs["environment"],
                                          provided_inputs)

\* the condition of main's early exit
EarlyExitCase ==
    /\ github_context.parsable
    /\ EventType(github_context) # "workflow_call"
    /\ provided_inputs = EmptyMap

PrimaryUnloadable == TryLoad(fs, ResolveWorkflowFile(workflow_path)) = << >>

\* the first default path that loads, 0 when none does
FirstDefault ==
    IF \E i \in 1..Len(default_paths) : TryLoad(fs, default_paths[i]) # << >>
    THEN CHOOSE i \in 1..Len(default_paths) :
            /\ TryLoad(fs, default_paths[i]) # << >>
            /\ \A j \in 1..(i - 1) : TryLoad(fs, default_paths[j]) = << >>
    ELSE 0

\* C7 as stated: when the workflow file at the given path cannot be opened or
\* parsed, the definitions degrade to an empty mapping and validation
\* continues; the run is never aborted at the definition-loading step.
C7_LoadFailureDegrades ==
    (PrimaryUnloadable /\ pc \notin {"start", "load", "inputs"}) =>
        /\ pc # "exit_load"
        /\ defined_inputs = << >>

\* C7 amended: when the workflow file at the given path cannot be opened or
\* parsed, the first of the three default paths that loads supplies the
\* definitions and validation continues; when none loads the run is aborted
\* at the definition-loading step with exit 1.  Only a file that loads empty
\* or without reusable-call inputs gives the empty mapping.
C7_LoadFailureFallsBackOrExits ==
    /\ (PrimaryUnloadable /\ pc \notin {"start", "load"}) =>
          IF FirstDefault = 0
          THEN pc = "exit_load" /\ exit_code = 1
          ELSE /\ pc # "exit_load"
               /\ workflow_data = TryLoad(fs, default_paths[FirstDefault])[1]
               /\ pc # "inputs" =>
                     defined_inputs = get_workflow_inputs(workflow_data)
    /\ pc = "exit_load" => (PrimaryUnloadable /\ FirstDefault = 0)

\* the run was aborted at the loading step
C7_Witness ==
    /\ pc = "exit_load"
    /\ PrimaryUnloadable
    /\ exit_code = 1

\* the event payload carries a non-empty inputs mapping
PayloadHasInputs ==
    /\ github_context.event
    /\ github_context.inputs_key
    /\ github_context.inputs # EmptyMap

\* C8 as stated: get_provided_inputs returns an empty mapping whenever
\* event_name is not workflow_call, whatever INPUT_ variables are set and
\* whatever inputs the event payload carries.
C8_EmptyUnlessWorkflowCall ==
    (ProvidedKnown /\ EventType(github_context) # "workflow_call") =>
        provided_inputs = EmptyMap

\* C8 amended: get_provided_inputs returns an empty mapping exactly when
\* GITHUB_CONTEXT does not parse, or no INPUT_ variable is set and the event
\* payload carries no non-empty inputs; the event name does not enter into it.
C8_EmptyIffNothingSupplied ==
    ProvidedKnown =>
        /\ provided_inputs = EmptyMap <=>
              \/ ~github_context.parsable
              \/ (os_environ = EmptyMap /\ ~PayloadHasInputs)
        /\ (github_context.parsable /\ os_environ # EmptyMap) =>
              /\ DOMAIN provided_inputs = {InputNameOf(k) : k \in DOMAIN os_environ}
              /\ \A k \in DOMAIN os_environ :
                    provided_inputs[InputNameOf(k)] = os_environ[k]
        /\ (github_context.parsable /\ os_environ = EmptyMap /\ PayloadHasInputs) =>
              provided_inputs = github_context.inputs

\* a push event whose INPUT_ variables were returned
C8_Witness ==
    /\ ProvidedKnown
    /\ EventType(github_context) = "push"
    /\ os_environ # EmptyMap
    /\ provided_inputs # EmptyMap

C9_LegacyReportsEveryRequired ==
    pc \in {"legacy_report", "legacy_exit"} =>
        \A j \in 1..Len(defined_inputs) :
            ( /\ defined_inputs[j].has_required
              /\ defined_inputs[j].required
              /\ defined_inputs[j].name \notin DOMAIN provided_inputs )
            => InSeq(defined_inputs[j].name, missing_inputs)

====
